---- MODULE Spec2Model ----
(***************************************************************************)
(* A model of the i-SAS service layer: the dependency barrier of           *)
(* isas/service/service.py, the one-message-per-connection transport of    *)
(* isas/service/socket.py and the execution-loop iteration of              *)
(* isas/interface.py with the helpers of isas/utils/dynamic_data_utils.py. *)
(*                                                                         *)
(* Three specifications share the module:                                  *)
(*   Spec      one Service process (main thread, InterfaceThread, the      *)
(*             SocketServer thread seen as the producer of recv_queue);    *)
(*   SockSpec  one SocketClient sending to one SocketServer over TCP;      *)
(*   IterSpec  calls of Interface.__call__ on a constructed Interface.     *)
(* Each specification leaves the other components' variables untouched.    *)
(***************************************************************************)
EXTENDS Integers, Sequences, FiniteSets, TLC

(* ------------------------------ bounds -------------------------------- *)
\* inbound messages put on recv_queue during one run of a service
MaxMsgs == 3
\* execution-loop iterations one InterfaceThread starts
MaxIter == 2
\* SocketClient.send calls of one client
MaxSends == 2
\* calls of Interface.__call__ on one Interface
MaxCalls == 2
\* readings of the wall clock: 0..MaxClock
MaxClock == 2
\* cfg['STREAM_EXPORT_QUEUE_MAXSIZE'] of the configurations
MaxExportQueue == 1
\* failed connects of one send call that are counted
MaxFails == 2

(* ------------------------------ helpers ------------------------------- *)
Range(s) == {s[i] : i \in 1..Len(s)}

Count(s, x) == Cardinality({i \in 1..Len(s) : s[i] = x})

(* --------------------- the service's environment ---------------------- *)
\* os.environ['SERVICE_NAME']
service_name == "a"

\* the keys of os.environ['PORT'], in the order the string lists them
ports == <<"a", "b", "c">>

\* the UTF-8 tokens a peer (or anybody who connects to the port) may send
Tokens == {"b", "c", "exit", "x"}

\* str.encode(): the UTF-8 bytes of the tokens in use
encode(s) ==
    CASE s = "a" -> <<97>>
      [] s = "b" -> <<98>>
      [] s = "c" -> <<99>>
      [] s = "x" -> <<120>>
      [] s = "exit" -> <<101, 120, 105, 116>>

\* bytes.decode(): the token whose UTF-8 bytes these are
decode(b) == CHOOSE s \in Tokens \cup {service_name} : encode(s) = b

(* --------------------------- configuration ---------------------------- *)
\* DATA_PROCESSING_METHOD values a configuration file may hold
Methods == {"batch", "stream", "simulate_stream", "bogus"}

\* a pandas DataFrame a model returns: its row labels, and whether they are a
\* datetime64 index; isnone marks a None in place of a frame
Frame(index) == [index |-> index, datetime |-> TRUE, isnone |-> FALSE]

Plain(n) == [index |-> [i \in 1..n |-> i - 1], datetime |-> FALSE, isnone |-> FALSE]

NoneFrame == [index |-> <<>>, datetime |-> FALSE, isnone |-> TRUE]

\* model classes a SUBPACKAGES entry may name: the class attributes TASK,
\* input_data_names and output_data_names, and the result the model returns
sensor ==
    [MODEL_NAME |-> "sensor", TASK |-> "measurement",
     input_data_names |-> <<>>, output_data_names |-> <<"raw">>,
     res |-> <<[name |-> "raw", df |-> Frame(<<1, 2>>)]>>]

est ==
    [MODEL_NAME |-> "est", TASK |-> "analysis",
     input_data_names |-> <<"raw", "ref">>,
     output_data_names |-> <<"est", "aux">>,
     res |-> <<[name |-> "est", df |-> Frame(<<1, 2>>)],
               [name |-> "aux", df |-> Frame(<<2, 3>>)]>>]

odd ==
    [MODEL_NAME |-> "odd", TASK |-> "other",
     input_data_names |-> <<"raw">>, output_data_names |-> <<"odd">>,
     res |-> <<[name |-> "odd", df |-> Plain(1)]>>]

stat ==
    [MODEL_NAME |-> "stat", TASK |-> "analysis",
     input_data_names |-> <<"est">>, output_data_names |-> <<"mean", "std">>,
     res |-> <<[name |-> "mean", df |-> Plain(2)],
               [name |-> "std", df |-> Plain(1)]>>]

peak ==
    [MODEL_NAME |-> "peak", TASK |-> "analysis",
     input_data_names |-> <<"raw">>, output_data_names |-> <<"skip", "peak">>,
     res |-> <<[name |-> "skip", df |-> NoneFrame],
               [name |-> "peak", df |-> Plain(2)]>>]

calib ==
    [MODEL_NAME |-> "calib", TASK |-> "analysis",
     input_data_names |-> <<"est">>, output_data_names |-> <<"ref">>,
     res |-> <<[name |-> "ref", df |-> Frame(<<1, 2>>)]>>]

\* cfg['SUBPACKAGES'] of the service configurations, in configuration order
ServiceSubpackages == { <<sensor, est>>, <<est, sensor>>, <<est, odd>> }

\* cfg['SERVICE_TYPE'] values
ServiceTypes == {"Interface", "Dashboard", "Other"}

Configs ==
    { c \in [DEPENDENCIES : SUBSET {"b", "c"},
             SERVICE_TYPE : ServiceTypes,
             METHOD       : Methods,
             SUBPACKAGES  : ServiceSubpackages \cup {<<>>}] :
        \* only an Interface reads SUBPACKAGES; another type reads nothing else
        /\ (c.SERVICE_TYPE = "Interface") <=> (c.SUBPACKAGES # <<>>)
        /\ (c.SERVICE_TYPE = "Other") => (c.METHOD = "batch") }

VARIABLES
    cfg,            \* Service.cfg
    recv_queue,     \* Service.recv_queue: the payloads received, oldest first
    n_recv,         \* payloads the SocketServer has put on recv_queue
    finished_init,  \* _wait_dependencies: the local list finished_init
    pc,             \* where the main thread is in Service.__call__
    send_idx,       \* _send_message: socket clients already served
    sent,           \* per port name, the payloads SocketClient.send delivered
    workload,       \* the Interface or Dashboard object and its state
    error,          \* the exception that ended __call__, or "none"
    stop_event,     \* InterfaceThread.stop_event
    thread,         \* InterfaceThread: "none", "idle", "iter", "dead",
                    \* "raised" (ended by an exception)
    n_iter,         \* iterations the InterfaceThread has started
    socket_server,  \* SocketServer thread: "running" or "stopped"
    server_stop     \* SocketServer.stop_event

svcVars == <<cfg, recv_queue, n_recv, finished_init, pc, send_idx, sent,
             workload, error, stop_event, thread, n_iter, socket_server,
             server_stop>>

\* one SocketClient and one SocketServer
VARIABLES
    to_send,        \* the payloads the client's send calls are given, in order
    c_pc,           \* where the client is in SocketClient.send
    c_idx,          \* send calls that have returned
    c_off,          \* sendall: bytes of the payload already written
    c_fails,        \* connects of the current send call that raised
    conns,          \* the TCP connections, in the order they were established
    n_accepted,     \* connections the server has accepted
    srv_pc,         \* where the server thread is in SocketServer.run
    srv_stop_event, \* SocketServer.stop_event
    data,           \* SocketServer._recv: the local list data
    queue           \* SocketServer.queue

sockVars == <<to_send, c_pc, c_idx, c_off, c_fails, conns, n_accepted, srv_pc,
              srv_stop_event, data, queue>>

\* one Interface and the calls of its __call__
VARIABLES
    icfg,           \* Interface.cfg with the SUBPACKAGES of the configuration
    last_datetime,  \* Interface.last_datetime, the cursor of _simulate_streaming
    now,            \* the wall clock datetime.now() reads
    export_queue,   \* Interface.export_queue
    putting,        \* the entry a call waits to put on export_queue
    exited,         \* Interface.exit was called
    n_calls,        \* calls of Interface.__call__ made
    out             \* the last call: its arguments, what it did and returned

iterVars == <<icfg, last_datetime, now, export_queue, putting, exited,
              n_calls, out>>

\* the services of one deployment, each running Service.__init__ and __call__
VARIABLES
    net_deps,       \* per service, cfg['DEPENDENCIES'] of its configuration
    net_pc,         \* per service, where its main thread is
    net_queue,      \* per service, the recv_queue its SocketServer fills
    net_finished,   \* per service, _wait_dependencies' local finished_init
    net_idx         \* per service, _send_message: socket clients served

netVars == <<net_deps, net_pc, net_queue, net_finished, net_idx>>

vars == <<svcVars, sockVars, iterVars, netVars>>

(* ---------------------- construction of a workload -------------------- *)
\* a _check_cfg that accepts every DATA_PROCESSING_METHOD
check_cfg_lax(c) == TRUE

\* Base._check_cfg
check_cfg(c) == c.METHOD \in {"batch", "stream", "simulate_stream"}

\* Base.__init__: self.streaming
streaming(c) == c.METHOD \in {"stream", "simulate_stream"}

\* the task categories with analysis first
tasks_reversed == <<"analysis", "measurement">>

\* the task categories, in the order Interface handles them
tasks == <<"measurement", "analysis">>

\* models[task]: the configured models (by position) of one category
models_of(c, task) ==
    SelectSeq([i \in 1..Len(c.SUBPACKAGES) |-> i],
              LAMBDA i : c.SUBPACKAGES[i].TASK = task)

\* a _set_models that checks the categories only after set_model was called
set_models_late(c) ==
    LET keys == {c.SUBPACKAGES[i].TASK : i \in 1..Len(c.SUBPACKAGES)} IN
    [error |-> IF keys \subseteq Range(tasks) THEN "none"
               ELSE "Unsupported tasks exist",
     instantiated |-> [i \in 1..Len(c.SUBPACKAGES) |-> i],
     set_model_calls |-> models_of(c, tasks[1]) \o models_of(c, tasks[2])]

\* Interface._set_models: every model is instantiated, then the categories are
\* checked, then set_model is called category by category
set_models(c) ==
    LET keys == {c.SUBPACKAGES[i].TASK : i \in 1..Len(c.SUBPACKAGES)} IN
    IF ~(keys \subseteq Range(tasks))
    THEN [error |-> "Unsupported tasks exist",
          instantiated |-> [i \in 1..Len(c.SUBPACKAGES) |-> i],
          set_model_calls |-> <<>>]
    ELSE [error |-> "none",
          instantiated |-> [i \in 1..Len(c.SUBPACKAGES) |-> i],
          set_model_calls |-> models_of(c, tasks[1]) \o models_of(c, tasks[2])]

NoWorkload ==
    [kind |-> "none", state |-> "none", instantiated |-> <<>>,
     set_model_calls |-> <<>>, exporter_started |-> FALSE,
     exporter_exit |-> FALSE]

\* Interface.__init__: Base.__init__ (with _check_cfg and _set_models), then the
\* export queue and its worker in a streaming mode
Interface_init(c) ==
    IF ~check_cfg(c)
    THEN [error |-> "Unsupported DATA_PROCESSING_METHOD", obj |-> NoWorkload]
    ELSE LET sm == set_models(c) IN
         IF sm.error # "none"
         THEN [error |-> sm.error,
               obj |-> [NoWorkload EXCEPT
                            !.instantiated = sm.instantiated,
                            !.set_model_calls = sm.set_model_calls]]
         ELSE [error |-> "none",
               obj |-> [kind |-> "Interface", state |-> "constructed",
                        instantiated |-> sm.instantiated,
                        set_model_calls |-> sm.set_model_calls,
                        exporter_started |-> streaming(c),
                        exporter_exit |-> FALSE]]

\* Dashboard.__init__: Base.__init__ with Dashboard._set_models
Dashboard_init(c) ==
    IF ~check_cfg(c)
    THEN [error |-> "Unsupported DATA_PROCESSING_METHOD", obj |-> NoWorkload]
    ELSE [error |-> "none",
          obj |-> [NoWorkload EXCEPT !.kind = "Dashboard",
                                     !.state = "constructed"]]

(* ------------------------------ Interface ----------------------------- *)
\* Python's None where a datetime is expected
None == -1

\* an element of a tags frame that reindexing left without a value
NA == [batch_id |-> "<NA>", service_name |-> "<NA>", batch_datetime |-> None]

\* cfg['SIMULATE_STREAM_PARAMS'] of the configurations
SIMULATE_STREAM_PARAMS ==
    [FIRST_DATETIME |-> 0, LAST_DATETIME |-> 1, INTERVAL |-> 1]

\* a DynamicData: the time series by name and the batch metadata by batch_id
EmptyData ==
    [time_series_data |-> [n \in {} |-> 0],
     time_series_batch_metadata |-> [b \in {} |-> 0]]

\* dict.update, as DynamicData.update applies it to both dicts
dict_update(d, e) ==
    [k \in DOMAIN d \cup DOMAIN e |-> IF k \in DOMAIN e THEN e[k] ELSE d[k]]

DynamicData_update(d, e) ==
    [time_series_data |-> dict_update(d.time_series_data, e.time_series_data),
     time_series_batch_metadata |->
         dict_update(d.time_series_batch_metadata, e.time_series_batch_metadata)]

\* the last call of an Interface that was not called yet
NoTag == [batch_id |-> "", service_name |-> "", batch_datetime |-> None]

NoCall ==
    [status |-> "none", first_datetime |-> None, last_datetime |-> None,
     window |-> <<None, None>>, applied |-> <<>>,
     seed_batches |-> [b \in {} |-> 0], seeded |-> {}, tag |-> NoTag, imports |-> <<>>, produced |-> {},
     dynamic_data |-> EmptyData, exported |-> <<>>, queued |-> FALSE]

\* no entry: no call waits in export_queue.put
NoEntry == [data_name |-> {}, batch_id |-> ""]

\* the Interface when none is called
\* no deployment: the services of the deployment part are not started
NetIdle ==
    /\ net_deps = [s \in Range(ports) |-> {}]
    /\ net_pc = [s \in Range(ports) |-> "off"]
    /\ net_queue = [s \in Range(ports) |-> <<>>]
    /\ net_finished = [s \in Range(ports) |-> <<>>]
    /\ net_idx = [s \in Range(ports) |-> 0]

IterIdle ==
    /\ icfg = [METHOD |-> "batch", TIME_SERIES_DATA_SYSTEM |-> "file",
               LOOP |-> FALSE, SUBPACKAGES |-> <<>>,
               EXPORT_DATA_NAMES |-> {},
               STREAM_EXPORT_QUEUE_MAXSIZE |-> MaxExportQueue,
               SIMULATE_STREAM_PARAMS |-> SIMULATE_STREAM_PARAMS]
    /\ last_datetime = None
    /\ now = 0
    /\ export_queue = <<>>
    /\ putting = NoEntry
    /\ exited = FALSE
    /\ n_calls = 0
    /\ out = NoCall

\* the socket pair when no client and no server of it runs
SockIdle ==
    /\ to_send = <<>>
    /\ c_pc = "idle"
    /\ c_idx = 0
    /\ c_off = 0
    /\ c_fails = 0
    /\ conns = <<>>
    /\ n_accepted = 0
    /\ srv_pc = "init"
    /\ srv_stop_event = FALSE
    /\ data = <<>>
    /\ queue = <<>>

(* ----------------------------- Service -------------------------------- *)
\* a _get_socket_clients that does not skip the service's own name
get_socket_clients_all == ports

\* Service._get_socket_clients: one client per port name but the service's own
get_socket_clients == SelectSeq(ports, LAMBDA n : n # service_name)

\* Service.__init__
Init ==
    /\ cfg \in Configs
    /\ recv_queue = <<>>
    /\ n_recv = 0
    /\ finished_init = <<>>
    /\ pc = "wait"
    /\ send_idx = 0
    /\ sent = [n \in Range(ports) |-> <<>>]
    /\ workload = NoWorkload
    /\ error = "none"
    /\ stop_event = FALSE
    /\ thread = "none"
    /\ n_iter = 0
    /\ socket_server = "running"
    /\ server_stop = FALSE
    /\ SockIdle
    /\ IterIdle
    /\ NetIdle

\* SocketServer._recv as the service sees it: one more payload on recv_queue
recv(m) ==
    /\ socket_server = "running"
    /\ n_recv < MaxMsgs
    /\ recv_queue' = Append(recv_queue, encode(m))
    /\ n_recv' = n_recv + 1
    /\ UNCHANGED <<sockVars, iterVars, netVars, cfg, finished_init, pc, send_idx, sent, workload, error,
                   stop_event, thread, n_iter, socket_server, server_stop>>

\* SocketServer.run: the loop ends once stop_event is seen
server_run_end ==
    /\ socket_server = "running"
    /\ server_stop
    /\ socket_server' = "stopped"
    /\ UNCHANGED <<sockVars, iterVars, netVars, cfg, recv_queue, n_recv, finished_init, pc, send_idx, sent,
                   workload, error, stop_event, thread, n_iter, server_stop>>

\* a barrier that counts the messages instead of comparing the sets
deps_satisfied_count(fi, deps) == Len(fi) >= Cardinality(deps)

\* _wait_dependencies: set(finished_init) >= set(cfg['DEPENDENCIES'])
deps_satisfied(fi, deps) == deps \subseteq Range(fi)

\* Service._wait_dependencies: the early return, or one turn of its loop
wait_dependencies ==
    /\ pc = "wait"
    /\ IF Cardinality(cfg.DEPENDENCIES) = 0
       THEN /\ pc' = "launch"
            /\ UNCHANGED <<sockVars, iterVars, netVars, recv_queue, finished_init>>
       ELSE /\ recv_queue # <<>>
            /\ LET message == decode(Head(recv_queue))
                   fi == Append(finished_init, message) IN
               /\ recv_queue' = Tail(recv_queue)
               /\ finished_init' = fi
               /\ pc' = IF deps_satisfied(fi, cfg.DEPENDENCIES)
                        THEN "launch" ELSE "wait"
    /\ UNCHANGED <<sockVars, iterVars, netVars, cfg, n_recv, send_idx, sent, workload, error, stop_event,
                   thread, n_iter, socket_server, server_stop>>

\* Service.__call__ with SERVICE_TYPE 'Interface': _run_interface builds the
\* Interface; an error of the constructor leaves __call__
run_interface_init ==
    /\ pc = "launch"
    /\ cfg.SERVICE_TYPE = "Interface"
    /\ LET r == Interface_init(cfg) IN
       /\ workload' = r.obj
       /\ error' = r.error
       /\ pc' = IF r.error = "none" THEN "send_ready" ELSE "raised"
    /\ send_idx' = 0
    /\ UNCHANGED <<sockVars, iterVars, netVars, cfg, recv_queue, n_recv, finished_init, sent, stop_event,
                   thread, n_iter, socket_server, server_stop>>

\* Service.__call__ with SERVICE_TYPE 'Dashboard': _run_dashboard builds the
\* Dashboard
run_dashboard_init ==
    /\ pc = "launch"
    /\ cfg.SERVICE_TYPE = "Dashboard"
    /\ LET r == Dashboard_init(cfg) IN
       /\ workload' = r.obj
       /\ error' = r.error
       /\ pc' = IF r.error = "none" THEN "send_ready" ELSE "raised"
    /\ send_idx' = 0
    /\ UNCHANGED <<sockVars, iterVars, netVars, cfg, recv_queue, n_recv, finished_init, sent, stop_event,
                   thread, n_iter, socket_server, server_stop>>

\* Service.__call__: the else branch
unsupported_service_type ==
    /\ pc = "launch"
    /\ cfg.SERVICE_TYPE \notin {"Interface", "Dashboard"}
    /\ error' = "Unsupported service type"
    /\ pc' = "raised"
    /\ UNCHANGED <<sockVars, iterVars, netVars, cfg, recv_queue, n_recv, finished_init, send_idx, sent,
                   workload, stop_event, thread, n_iter, socket_server,
                   server_stop>>

\* what follows self._send_message(self.service_name)
after_ready == IF cfg.SERVICE_TYPE = "Interface" THEN "thread_start"
               ELSE "dashboard_call"

\* Service._send_message: SocketClient.send to the next client (it returns
\* once the payload is written), or the end of the loop over the clients
send_message(at, message, next) ==
    /\ pc = at
    /\ LET clients == get_socket_clients IN
       IF send_idx < Len(clients)
       THEN /\ sent' = [sent EXCEPT ![clients[send_idx + 1]] =
                            Append(@, encode(message))]
            /\ send_idx' = send_idx + 1
            /\ pc' = pc
       ELSE /\ pc' = next
            /\ send_idx' = 0
            /\ sent' = sent
    /\ UNCHANGED <<sockVars, iterVars, netVars, cfg, recv_queue, n_recv, finished_init, workload, error,
                   stop_event, thread, n_iter, socket_server, server_stop>>

\* _run_interface / _run_dashboard: self._send_message(self.service_name)
send_ready == send_message("send_ready", service_name, after_ready)

\* _run_interface: thread = InterfaceThread(interface); thread.start()
thread_start ==
    /\ pc = "thread_start"
    /\ thread' = "idle"
    /\ pc' = "watch"
    /\ UNCHANGED <<sockVars, iterVars, netVars, cfg, recv_queue, n_recv, finished_init, send_idx, sent,
                   workload, error, stop_event, n_iter, socket_server,
                   server_stop>>

\* a watch that takes every message for an exit
is_exit_any(message) == TRUE

\* _run_interface: message == 'exit'
is_exit(message) == message = "exit"

\* a stop that leaves the event as it is
InterfaceThread_stop_unset == stop_event

\* InterfaceThread.stop: the value of stop_event after the call
InterfaceThread_stop == TRUE

\* _run_interface: one turn of the while loop over recv_queue
run_interface_watch ==
    /\ pc = "watch"
    /\ recv_queue # <<>>
    /\ recv_queue' = Tail(recv_queue)
    /\ IF is_exit(decode(Head(recv_queue)))
       THEN /\ stop_event' = InterfaceThread_stop
            /\ pc' = "exit"
       ELSE /\ stop_event' = stop_event
            /\ pc' = "watch"
    /\ UNCHANGED <<sockVars, iterVars, netVars, cfg, n_recv, finished_init, send_idx, sent, workload, error,
                   thread, n_iter, socket_server, server_stop>>

\* _run_dashboard: dashboard() starts the Qt application and blocks in it
dashboard_call ==
    /\ pc = "dashboard_call"
    /\ workload' = [workload EXCEPT !.state = "running"]
    /\ pc' = "dashboard_running"
    /\ UNCHANGED <<sockVars, iterVars, netVars, cfg, recv_queue, n_recv, finished_init, send_idx, sent,
                   error, stop_event, thread, n_iter, socket_server,
                   server_stop>>

\* a _run_dashboard that returns without the exit broadcast
after_dashboard_silent == "exit"

\* what follows the return of dashboard()
after_dashboard == "send_exit"

\* _run_dashboard: dashboard() returns when the application is closed
dashboard_return ==
    /\ pc = "dashboard_running"
    /\ workload' = [workload EXCEPT !.state = "finished"]
    /\ pc' = after_dashboard
    /\ send_idx' = 0
    /\ UNCHANGED <<sockVars, iterVars, netVars, cfg, recv_queue, n_recv, finished_init, sent, error,
                   stop_event, thread, n_iter, socket_server, server_stop>>

\* _run_dashboard: self._send_message('exit')
send_exit == send_message("send_exit", "exit", "exit")

\* Service.exit, called at the end of __call__
exit ==
    /\ pc = "exit"
    /\ server_stop' = IF socket_server = "running" THEN TRUE ELSE server_stop
    /\ pc' = "done"
    /\ UNCHANGED <<sockVars, iterVars, netVars, cfg, recv_queue, n_recv, finished_init, send_idx, sent,
                   workload, error, stop_event, thread, n_iter, socket_server>>

(* -------------------------- InterfaceThread --------------------------- *)
\* a run loop that never looks at stop_event
loop_condition_always(event) == TRUE

\* InterfaceThread.run: while not self.stop_event.is_set()
loop_condition(event) == ~event

\* Interface.exit: in a streaming mode the worker's exit flag is set and the
\* worker joined; then the models exit
Interface_exit(w) ==
    [w EXCEPT !.state = "exited", !.exporter_exit = w.exporter_started]

\* InterfaceThread.run: stop_event is not set, self.isas() is entered
thread_iteration_start ==
    /\ thread = "idle"
    /\ loop_condition(stop_event)
    /\ n_iter < MaxIter
    /\ thread' = "iter"
    /\ n_iter' = n_iter + 1
    /\ UNCHANGED <<sockVars, iterVars, netVars, cfg, recv_queue, n_recv, finished_init, pc, send_idx, sent,
                   workload, error, stop_event, socket_server, server_stop>>

\* InterfaceThread.run: self.isas() returns
thread_iteration_end ==
    /\ thread = "iter"
    /\ thread' = "idle"
    /\ UNCHANGED <<sockVars, iterVars, netVars, cfg, recv_queue, n_recv, finished_init, pc, send_idx, sent,
                   workload, error, stop_event, n_iter, socket_server,
                   server_stop>>

\* InterfaceThread.run: self.isas() raises (a model, an import or an export
\* does); nothing in run catches it, so the thread ends there, without
\* self.isas.exit()
thread_iteration_raise ==
    /\ thread = "iter"
    /\ thread' = "raised"
    /\ UNCHANGED <<sockVars, iterVars, netVars, cfg, recv_queue, n_recv, finished_init, pc, send_idx, sent,
                   workload, error, stop_event, n_iter, socket_server,
                   server_stop>>

\* InterfaceThread.run: stop_event is set, self.isas.exit() and the end of run
thread_run_end ==
    /\ thread = "idle"
    /\ ~loop_condition(stop_event)
    /\ thread' = "dead"
    /\ workload' = Interface_exit(workload)
    /\ UNCHANGED <<sockVars, iterVars, netVars, cfg, recv_queue, n_recv, finished_init, pc, send_idx, sent,
                   error, stop_event, n_iter, socket_server, server_stop>>

(* ------------------- SocketClient and SocketServer -------------------- *)
\* SocketServer.__init__: bufsize
bufsize == 1024

\* SocketServer.run: s.listen(1)
listen_backlog == 1

\* the byte strings handed to SocketClient.send
SendPayloads == { <<>>, <<1>>, <<1, 2>> }

Min(a, b) == IF a < b THEN a ELSE b

\* the service when only a socket pair runs
SvcIdle ==
    /\ cfg = [DEPENDENCIES |-> {}, SERVICE_TYPE |-> "Other",
              METHOD |-> "batch", SUBPACKAGES |-> <<>>]
    /\ recv_queue = <<>>
    /\ n_recv = 0
    /\ finished_init = <<>>
    /\ pc = "none"
    /\ send_idx = 0
    /\ sent = [n \in Range(ports) |-> <<>>]
    /\ workload = NoWorkload
    /\ error = "none"
    /\ stop_event = FALSE
    /\ thread = "none"
    /\ n_iter = 0
    /\ socket_server = "stopped"
    /\ server_stop = FALSE

SockInit ==
    /\ SvcIdle
    /\ IterIdle
    /\ NetIdle
    /\ to_send \in UNION {[1..n -> SendPayloads] : n \in 0..MaxSends}
    /\ c_pc = "idle"
    /\ c_idx = 0
    /\ c_off = 0
    /\ c_fails = 0
    /\ conns = <<>>
    /\ n_accepted = 0
    /\ srv_pc = "init"
    /\ srv_stop_event = FALSE
    /\ data = <<>>
    /\ queue = <<>>

\* the server's socket is bound and listening
listening == srv_pc \in {"loop", "accept", "recv"}

\* SocketClient.send: the call is entered and the socket created
send_enter ==
    /\ c_pc = "idle"
    /\ c_idx < Len(to_send)
    /\ c_pc' = "connect"
    /\ c_off' = 0
    /\ c_fails' = 0
    /\ UNCHANGED <<svcVars, iterVars, netVars, to_send, c_idx, conns, n_accepted, srv_pc,
                   srv_stop_event, data, queue>>

\* a send that lets the socket.error of connect out
after_connect_error_raise == "raised"

\* SocketClient.send: the except branch takes every socket.error
after_connect_error == "sleep"

\* SocketClient.send: s.connect succeeds when the server listens and its
\* backlog has room, and raises socket.error when nothing listens
send_connect ==
    /\ c_pc = "connect"
    /\ IF listening
       THEN /\ Len(conns) - n_accepted <= listen_backlog
            /\ conns' = Append(conns, [data |-> <<>>, eof |-> FALSE,
                                     closed |-> FALSE])
            /\ c_pc' = "sendall"
            /\ c_fails' = c_fails
       ELSE /\ conns' = conns
            /\ c_pc' = after_connect_error
            /\ c_fails' = Min(c_fails + 1, MaxFails)
    /\ UNCHANGED <<svcVars, iterVars, netVars, to_send, c_idx, c_off, n_accepted, srv_pc,
                   srv_stop_event, data, queue>>

\* SocketClient.send: time.sleep(1) in the except branch, then the next turn
send_retry ==
    /\ c_pc = "sleep"
    /\ c_pc' = "connect"
    /\ UNCHANGED <<svcVars, iterVars, netVars, c_fails, to_send, c_idx, c_off, conns, n_accepted, srv_pc,
                   srv_stop_event, data, queue>>

\* SocketClient.send: s.sendall writes the payload, some bytes at a time
send_sendall ==
    /\ c_pc = "sendall"
    /\ LET d == to_send[c_idx + 1] IN
       IF c_off = Len(d)
       THEN /\ c_pc' = "close"
            /\ UNCHANGED <<conns, c_off>>
       ELSE \E k \in 1..(Len(d) - c_off) :
            /\ conns' = [conns EXCEPT ![Len(conns)].data =
                             @ \o SubSeq(d, c_off + 1, c_off + k)]
            /\ c_off' = c_off + k
            /\ c_pc' = c_pc
    /\ UNCHANGED <<svcVars, iterVars, netVars, c_fails, to_send, c_idx, n_accepted, srv_pc,
                   srv_stop_event, data, queue>>

\* SocketClient.send: the with block closes the socket and send returns
send_close ==
    /\ c_pc = "close"
    /\ conns' = [conns EXCEPT ![Len(conns)].eof = TRUE]
    /\ c_idx' = c_idx + 1
    /\ c_pc' = "idle"
    /\ UNCHANGED <<svcVars, iterVars, netVars, c_fails, to_send, c_off, n_accepted, srv_pc,
                   srv_stop_event, data, queue>>

\* SocketServer.run: bind and listen
server_listen ==
    /\ srv_pc = "init"
    /\ srv_pc' = "loop"
    /\ UNCHANGED <<svcVars, iterVars, netVars, c_fails, to_send, c_pc, c_idx, c_off, conns, n_accepted,
                   srv_stop_event, data, queue>>

\* a run loop that goes on accepting whatever stop_event says
after_loop_check_ignore(event) == "accept"

\* SocketServer.run: what follows the test of the while loop
after_loop_check(event) == IF event THEN "stopped" ELSE "accept"

\* SocketServer.run: while not self.stop_event.is_set()
server_loop ==
    /\ srv_pc = "loop"
    /\ srv_pc' = after_loop_check(srv_stop_event)
    /\ UNCHANGED <<svcVars, iterVars, netVars, c_fails, to_send, c_pc, c_idx, c_off, conns, n_accepted,
                   srv_stop_event, data, queue>>

\* SocketServer._recv: socket.accept() returns the oldest pending connection,
\* or raises socket.timeout, which run passes over
server_accept ==
    /\ srv_pc = "accept"
    /\ IF n_accepted < Len(conns)
       THEN /\ n_accepted' = n_accepted + 1
            /\ data' = <<>>
            /\ srv_pc' = "recv"
       ELSE /\ srv_pc' = "loop"
            /\ UNCHANGED <<n_accepted, data>>
    /\ UNCHANGED <<svcVars, iterVars, netVars, c_fails, to_send, c_pc, c_idx, c_off, conns,
                   srv_stop_event, queue>>

\* a join that keeps only the last packet
join_last(packets) ==
    IF packets = <<>> THEN <<>> ELSE packets[Len(packets)]

\* b''.join(data)
RECURSIVE join(_)
join(packets) ==
    IF packets = <<>> THEN <<>> ELSE Head(packets) \o join(Tail(packets))

\* SocketServer._recv: conn.recv(bufsize) returns some of the bytes that have
\* arrived; at the end of the stream the with block closes conn and the
\* joined packets go to the queue
server_recv ==
    /\ srv_pc = "recv"
    /\ LET conn == conns[n_accepted] IN
       IF conn.data # <<>>
       THEN \E k \in 1..Min(bufsize, Len(conn.data)) :
            /\ data' = Append(data, SubSeq(conn.data, 1, k))
            /\ conns' = [conns EXCEPT ![n_accepted].data =
                             SubSeq(conn.data, k + 1, Len(conn.data))]
            /\ UNCHANGED <<queue, srv_pc>>
       ELSE /\ conn.eof
            /\ conns' = [conns EXCEPT ![n_accepted].closed = TRUE]
            /\ queue' = Append(queue, join(data))
            /\ srv_pc' = "loop"
            /\ UNCHANGED data
    /\ UNCHANGED <<svcVars, iterVars, netVars, c_fails, to_send, c_pc, c_idx, c_off, n_accepted,
                   srv_stop_event>>

\* SocketServer.stop
server_stop_call ==
    /\ ~srv_stop_event
    /\ srv_stop_event' = TRUE
    /\ UNCHANGED <<svcVars, iterVars, netVars, c_fails, to_send, c_pc, c_idx, c_off, conns, n_accepted,
                   srv_pc, data, queue>>

ClientNext == send_enter \/ send_connect \/ send_retry \/ send_sendall \/ send_close

ServerNext == server_listen \/ server_loop \/ server_accept \/ server_recv

SockNext ==
    \/ send_enter
    \/ send_connect
    \/ send_retry
    \/ send_sendall
    \/ send_close
    \/ server_listen
    \/ server_loop
    \/ server_accept
    \/ server_recv
    \/ server_stop_call

\* both threads keep running: the client's and the server's
SockSpec ==
    SockInit /\ [][SockNext]_vars /\ WF_vars(ClientNext) /\ WF_vars(ServerNext)


(* ----------------------- Interface.__call__ --------------------------- *)
\* the configurations an Interface is constructed from without an error
IterSubpackages ==
    { <<sensor, est>>, <<sensor, peak>>, <<est, stat>>, <<peak>>,
      <<est, sensor, peak>>, <<est, calib>> }

\* cfg['SIMULATE_STREAM_PARAMS'] a configuration may give: LAST_DATETIME one
\* or two intervals after FIRST_DATETIME
StreamParams ==
    { SIMULATE_STREAM_PARAMS,
      [SIMULATE_STREAM_PARAMS EXCEPT !.LAST_DATETIME = @ + SIMULATE_STREAM_PARAMS.INTERVAL] }

IterConfigs ==
    { c \in [METHOD : {"batch", "stream", "simulate_stream"},
             TIME_SERIES_DATA_SYSTEM : {"file", "influx"},
             LOOP : BOOLEAN,
             SUBPACKAGES : IterSubpackages,
             EXPORT_DATA_NAMES : {{"raw", "est", "peak"}},
             STREAM_EXPORT_QUEUE_MAXSIZE : {0, MaxExportQueue},
             SIMULATE_STREAM_PARAMS : StreamParams] :
        /\ c.LOOP => c.METHOD = "simulate_stream"
        /\ c.METHOD # "simulate_stream" =>
               c.SIMULATE_STREAM_PARAMS = SIMULATE_STREAM_PARAMS
        /\ c.STREAM_EXPORT_QUEUE_MAXSIZE = 0 =>
               c.METHOD # "batch" /\ c.TIME_SERIES_DATA_SYSTEM = "influx" }

\* what the stores hold: tagged rows of earlier batches, by name
Store ==
    [n \in {"raw", "ref"} |->
        [index |-> <<0>>,
         tags |-> <<[batch_id |-> "up_0", service_name |-> "up",
                     batch_datetime |-> 0]>>]]

\* the dynamic_data a caller may pass in
Seeds ==
    { EmptyData,
      [time_series_data |->
          [n \in {"raw"} |->
              [index |-> <<0>>,
               tags |-> <<[batch_id |-> "seed_0", service_name |-> "seed",
                           batch_datetime |-> 0]>>]],
       time_series_batch_metadata |->
          [b \in {"seed_0"} |->
              [service_name |-> "seed", batch_datetime |-> 0,
               dependencies |-> {}]]] }

\* the first_datetime and last_datetime a caller may pass in
Datetimes == {None, 0}

\* generate_tag
generate_tag(name, t) ==
    [batch_id |-> name \o "_" \o ToString(t),
     service_name |-> name,
     batch_datetime |-> t]

HasDuplicates(index) ==
    \E i, j \in 1..Len(index) : i < j /\ index[i] = index[j]

\* arrange_result: pd.DataFrame(tag, index=df.index), where tag is the dict of
\* the batch or the frame an earlier turn of the loop has left in `tag`;
\* a frame is reindexed, which pandas refuses on duplicate labels
tag_frame(tagv, index) ==
    IF tagv.kind = "dict"
    THEN [error |-> "none",
          frame |-> [kind |-> "frame", tag |-> tagv.tag, index |-> index,
                     rows |-> [i \in 1..Len(index) |-> tagv.tag]]]
    ELSE IF tagv.index = index
    THEN [error |-> "none", frame |-> tagv]
    ELSE IF HasDuplicates(tagv.index)
    THEN [error |-> "ValueError: cannot reindex", frame |-> tagv]
    ELSE [error |-> "none",
          frame |-> [kind |-> "frame", tag |-> tagv.tag, index |-> index,
                     rows |-> [i \in 1..Len(index) |->
                        IF \E j \in 1..Len(tagv.index) : tagv.index[j] = index[i]
                        THEN tagv.rows[CHOOSE j \in 1..Len(tagv.index) :
                                           tagv.index[j] = index[i]]
                        ELSE NA]]]

\* arrange_result: the loop over res.items(), with the local tag and the
\* time_series_data built so far
RECURSIVE arrange_loop(_, _, _, _)
arrange_loop(items, tagv, ns, time_series_data) ==
    IF items = <<>>
    THEN [error |-> "none", time_series_data |-> time_series_data]
    ELSE LET data_name == Head(items).name
             df == Head(items).df IN
         IF df.isnone
         THEN arrange_loop(Tail(items), tagv, ns, time_series_data)
         ELSE LET index == IF df.datetime THEN df.index
                           ELSE [i \in 1..Len(df.index) |-> ns]
                  tf == tag_frame(tagv, index) IN
              IF tf.error # "none"
              THEN [error |-> tf.error, time_series_data |-> time_series_data]
              ELSE arrange_loop(
                       Tail(items), tf.frame, ns,
                       dict_update(time_series_data,
                           [n \in {data_name} |->
                               [index |-> index, tags |-> tf.frame.rows]]))

\* arrange_result(res, tag), with ns = datetime.now()
arrange_result(res, tag, ns) ==
    LET r == arrange_loop(res, [kind |-> "dict", tag |-> tag, index |-> <<>>,
                                rows |-> <<>>], ns, [n \in {} |-> 0]) IN
    [error |-> r.error,
     dynamic_data |-> [EmptyData EXCEPT !.time_series_data = r.time_series_data]]

\* a get_dependencies that keeps the batch_id of the batch itself
get_dependencies_with_own(dynamic_data, tag) ==
    LET tsd == dynamic_data.time_series_data IN
    UNION {{tsd[n].tags[i].batch_id : i \in 1..Len(tsd[n].tags)} : n \in DOMAIN tsd}

\* get_dependencies
get_dependencies(dynamic_data, tag) ==
    LET tsd == dynamic_data.time_series_data IN
    UNION {{tsd[n].tags[i].batch_id : i \in 1..Len(tsd[n].tags)} : n \in DOMAIN tsd}
        \ {tag.batch_id}

\* a metadata generator that returns no record
generate_time_series_batch_metadata_none(tag, dependent_batch_id) == EmptyData

\* generate_time_series_batch_metadata
generate_time_series_batch_metadata(tag, dependent_batch_id) ==
    [EmptyData EXCEPT !.time_series_batch_metadata =
        [b \in {tag.batch_id} |->
            [service_name |-> tag.service_name,
             batch_datetime |-> tag.batch_datetime,
             dependencies |-> dependent_batch_id]]]

\* Interface._set_models: import_data_names[task]
import_data_names(c, task) ==
    LET ms == models_of(c, task) IN
    UNION {Range(c.SUBPACKAGES[ms[k]].input_data_names) : k \in 1..Len(ms)}
        \ UNION {Range(c.SUBPACKAGES[ms[k]].output_data_names) : k \in 1..Len(ms)}

\* Interface._set_models: export_data_names
export_data_names(c) ==
    UNION { c.EXPORT_DATA_NAMES \cap
              UNION {Range(c.SUBPACKAGES[i].output_data_names) :
                       i \in Range(models_of(c, tasks[t]))} : t \in 1..Len(tasks) }

\* a streaming clock that starts over at LAST_DATETIME whatever LOOP says
simulate_streaming_always_loop(c, cursor) ==
    LET p == c.SIMULATE_STREAM_PARAMS
        fisrt_datetime == IF cursor = None \/ cursor >= p.LAST_DATETIME
                          THEN p.FIRST_DATETIME
                          ELSE cursor IN
    [first_datetime |-> fisrt_datetime,
     last_datetime |-> fisrt_datetime + p.INTERVAL,
     cursor |-> fisrt_datetime + p.INTERVAL]

\* a streaming clock that never starts over
simulate_streaming_never_loop(c, cursor) ==
    LET p == c.SIMULATE_STREAM_PARAMS
        fisrt_datetime == IF cursor = None THEN p.FIRST_DATETIME ELSE cursor IN
    [first_datetime |-> fisrt_datetime,
     last_datetime |-> fisrt_datetime + p.INTERVAL,
     cursor |-> fisrt_datetime + p.INTERVAL]

\* Interface._simulate_streaming: the window and the cursor after the call
simulate_streaming(c, cursor) ==
    LET p == c.SIMULATE_STREAM_PARAMS
        loop == cursor # None /\ c.LOOP /\ cursor >= p.LAST_DATETIME
        fisrt_datetime == IF cursor = None \/ loop THEN p.FIRST_DATETIME
                          ELSE cursor IN
    [first_datetime |-> fisrt_datetime,
     last_datetime |-> fisrt_datetime + p.INTERVAL,
     cursor |-> fisrt_datetime + p.INTERVAL]

\* a __call__ that advances the streaming clock before it looks at the
\* arguments
call_window_unchecked_first(c, cursor, first_datetime, last) ==
    IF c.METHOD = "simulate_stream"
    THEN simulate_streaming(c, cursor) @@
         [error |-> IF first_datetime # None \/ last # None
                    THEN "ValueError: datetime must be None with simulate_stream."
                    ELSE "none"]
    ELSE [error |-> "none", first_datetime |-> first_datetime,
          last_datetime |-> last, cursor |-> cursor]

\* Interface.__call__: the window of the call, or the error of explicit
\* datetimes in simulate_stream mode
call_window(c, cursor, first_datetime, last) ==
    IF c.METHOD = "simulate_stream"
    THEN IF first_datetime # None \/ last # None
         THEN [error |-> "ValueError: datetime must be None with simulate_stream.",
               first_datetime |-> first_datetime, last_datetime |-> last,
               cursor |-> cursor]
         ELSE simulate_streaming(c, cursor) @@ [error |-> "none"]
    ELSE [error |-> "none", first_datetime |-> first_datetime,
          last_datetime |-> last, cursor |-> cursor]

\* data_manager.import_dynamic_data: the stored series among the names asked
import_dynamic_data(data_name, time_series_data_system, first_datetime, last) ==
    [EmptyData EXCEPT !.time_series_data =
        [n \in data_name \cap DOMAIN Store |-> Store[n]]]

\* Interface.__call__: data_system of a task
data_system_of(c, task) ==
    IF (IF task = "measurement" THEN FALSE ELSE streaming(c))
    THEN "streaming" ELSE c.TIME_SERIES_DATA_SYSTEM

\* Interface.__call__: the loop over the models of a task; st carries the
\* working data, the error raised so far and the names produced
RECURSIVE apply_models(_, _, _, _, _)
apply_models(c, ms, st, tag, ns) ==
    IF ms = <<>> \/ st.error # "none"
    THEN st
    ELSE LET model == c.SUBPACKAGES[Head(ms)]
             ar == arrange_result(model.res, tag, ns)
             called == [model |-> Head(ms), task |-> model.TASK,
                        seen |-> DOMAIN st.dynamic_data.time_series_data] IN
         IF ar.error # "none"
         THEN [st EXCEPT !.error = ar.error, !.applied = Append(@, called)]
         ELSE apply_models(c, Tail(ms),
                  [st EXCEPT
                     !.applied = Append(@, called),
                     !.dynamic_data = DynamicData_update(@, ar.dynamic_data),
                     !.produced = @ \cup DOMAIN ar.dynamic_data.time_series_data],
                  tag, ns)

\* an import that asks for every import_data_names of the task
import_names_all(c, task, dynamic_data) == import_data_names(c, task)

\* Interface.__call__: data_name, the names to import for a task
import_names(c, task, dynamic_data) ==
    import_data_names(c, task) \ DOMAIN dynamic_data.time_series_data

\* Interface.__call__: one turn of the loop over the tasks
run_task(c, task, st, tag, win, ns) ==
    IF st.error # "none"
    THEN st
    ELSE LET data_name == import_names(c, task, st.dynamic_data)
             imported == import_dynamic_data(data_name, data_system_of(c, task),
                             win.first_datetime, win.last_datetime)
             merged == DynamicData_update(st.dynamic_data, imported) IN
         apply_models(c, models_of(c, task),
             [st EXCEPT
                !.dynamic_data = merged,
                !.imports = Append(@, [task |-> task, data_name |-> data_name,
                                       system |-> data_system_of(c, task),
                                       before |-> st.dynamic_data.time_series_data,
                                       after |-> merged.time_series_data])],
             tag, ns)

\* Interface.__call__(dynamic_data, first_datetime, last_datetime) at clock
\* reading t: the cursor it leaves, and what it did and returned
Interface_call(c, cursor, t, dynamic_data, first_datetime, last) ==
    LET args == [NoCall EXCEPT !.first_datetime = first_datetime,
                               !.last_datetime = last,
                               !.seeded = DOMAIN dynamic_data.time_series_data,
                               !.seed_batches =
                                   dynamic_data.time_series_batch_metadata]
        win == call_window(c, cursor, first_datetime, last) IN
    IF win.error # "none"
    THEN [cursor |-> win.cursor, out |-> [args EXCEPT !.status = win.error]]
    ELSE LET tag == generate_tag(service_name, t)
             st0 == [error |-> "none", dynamic_data |-> dynamic_data,
                     imports |-> <<>>, produced |-> {}, applied |-> <<>>]
             st1 == run_task(c, tasks[1], st0, tag, win, t)
             st2 == run_task(c, tasks[2], st1, tag, win, t)
             ran == [args EXCEPT !.tag = tag, !.imports = st2.imports,
                                 !.applied = st2.applied,
                                 !.window = <<win.first_datetime,
                                              win.last_datetime>>,
                                 !.produced = st2.produced] IN
         IF st2.error # "none"
         THEN [cursor |-> win.cursor,
               out |-> [ran EXCEPT !.status = st2.error,
                                   !.dynamic_data = st2.dynamic_data]]
         ELSE LET dependent_batch_id == get_dependencies(st2.dynamic_data, tag)
                  result == DynamicData_update(st2.dynamic_data,
                                generate_time_series_batch_metadata(
                                    tag, dependent_batch_id))
                  direct == c.TIME_SERIES_DATA_SYSTEM \in {"influx"} IN
              [cursor |-> win.cursor,
               out |-> [ran EXCEPT
                          !.status = "ok",
                          !.dynamic_data = result,
                          !.exported =
                              IF direct
                              THEN <<[data_name |-> export_data_names(c),
                                      system |-> data_system_of(c, tasks[2])]>>
                              ELSE <<>>,
                          !.queued = direct /\ streaming(c)]]

IterInit ==
    /\ SvcIdle
    /\ SockIdle
    /\ NetIdle
    /\ icfg \in IterConfigs
    /\ last_datetime = None
    /\ now = 0
    /\ export_queue = <<>>
    /\ putting = NoEntry
    /\ exited = FALSE
    /\ n_calls = 0
    /\ out = NoCall

\* one call of Interface.__call__, up to its return or to its
\* export_queue.put; no call starts while the last one waits in put
call(dynamic_data, first_datetime, last) ==
    /\ n_calls < MaxCalls
    /\ putting = NoEntry
    /\ ~exited
    /\ LET r == Interface_call(icfg, last_datetime, now, dynamic_data,
                               first_datetime, last) IN
       /\ last_datetime' = r.cursor
       /\ out' = r.out
       /\ putting' =
              IF r.out.queued
              THEN [data_name |-> export_data_names(icfg),
                    batch_id |-> r.out.tag.batch_id]
              ELSE NoEntry
    /\ n_calls' = n_calls + 1
    /\ UNCHANGED <<svcVars, sockVars, netVars, icfg, now, export_queue, exited>>

\* a queue.Queue that takes every put at once
Queue_never_full(q, maxsize) == FALSE

\* queue.Queue(maxsize): put waits while maxsize > 0 and the queue holds
\* maxsize entries; a maxsize of 0 or less makes the queue unbounded
Queue_full(q, maxsize) == maxsize > 0 /\ Len(q) >= maxsize

\* Interface.__call__: export_queue.put returns, and with it the call
export_queue_put ==
    /\ putting # NoEntry
    /\ ~Queue_full(export_queue, icfg.STREAM_EXPORT_QUEUE_MAXSIZE)
    /\ export_queue' = Append(export_queue, putting)
    /\ putting' = NoEntry
    /\ UNCHANGED <<svcVars, sockVars, netVars, icfg, last_datetime, now, exited,
                   n_calls, out>>

\* the wall clock advances
tick ==
    /\ now < MaxClock
    /\ now' = now + 1
    /\ UNCHANGED <<svcVars, sockVars, netVars, icfg, last_datetime, export_queue,
                   putting, exited, n_calls, out>>

\* ParallelExporter: the worker takes the oldest entry off the queue
exporter_get ==
    /\ export_queue # <<>>
    /\ export_queue' = Tail(export_queue)
    /\ UNCHANGED <<svcVars, sockVars, netVars, icfg, last_datetime, now, putting,
                   exited, n_calls, out>>

\* an exit that waits until the export queue is empty
exit_proceeds_when_drained(q) == q = <<>>

\* Interface.exit: nothing in it looks at the export queue before the
\* worker's exit flag is set
exit_proceeds(q) == TRUE

\* ParallelExporter.exit, the worker's stop flag: set by Interface.exit in a
\* streaming mode
parallel_exporter_exit == exited /\ streaming(icfg)

\* Interface.exit, called by the thread that makes the calls, after the last
\* of them has returned
Interface_exit_call ==
    /\ ~exited
    /\ putting = NoEntry
    /\ exit_proceeds(export_queue)
    /\ exited' = TRUE
    /\ UNCHANGED <<svcVars, sockVars, netVars, icfg, last_datetime, now, export_queue,
                   putting, n_calls, out>>

IterNext ==
    \/ \E d \in Seeds, f \in Datetimes, l \in Datetimes : call(d, f, l)
    \/ export_queue_put
    \/ tick
    \/ exporter_get
    \/ Interface_exit_call

IterSpec == IterInit /\ [][IterNext]_vars

(* --------------------- the services of a deployment ------------------- *)
\* the DEPENDENCIES each service of the deployment may declare: any set of
\* the other services, cyclic declarations included
NetConfigs == {f \in [Range(ports) -> SUBSET Range(ports)] :
                 \A s \in Range(ports) : s \notin f[s]}

NetInit ==
    /\ net_deps \in NetConfigs
    /\ net_pc = [s \in Range(ports) |-> "off"]
    /\ net_queue = [s \in Range(ports) |-> <<>>]
    /\ net_finished = [s \in Range(ports) |-> <<>>]
    /\ net_idx = [s \in Range(ports) |-> 0]
    /\ SvcIdle
    /\ SockIdle
    /\ IterIdle

\* Service._get_socket_clients of the service called name
socket_clients(name) == SelectSeq(ports, LAMBDA n : n # name)

\* a SocketServer that is started by __call__ once the barrier is passed
server_started_after_barrier(at) == at \notin {"off", "wait"}

\* the SocketServer of a service accepts connections from the moment
\* Service.__init__ has started it
server_started(at) == at # "off"

\* Service.__init__ of s, and __call__ up to _wait_dependencies
net_start(s) ==
    /\ net_pc[s] = "off"
    /\ net_pc' = [net_pc EXCEPT ![s] = "wait"]
    /\ UNCHANGED <<svcVars, sockVars, iterVars, net_deps, net_queue,
                   net_finished, net_idx>>

\* a barrier that every service returns from at once
no_dependencies_always(deps) == TRUE

\* _wait_dependencies: not len(cfg['DEPENDENCIES'])
no_dependencies(deps) == Cardinality(deps) = 0

\* Service._wait_dependencies of s: the early return, or one turn of its loop
net_wait(s) ==
    /\ net_pc[s] = "wait"
    /\ IF no_dependencies(net_deps[s])
       THEN /\ net_pc' = [net_pc EXCEPT ![s] = "construct"]
            /\ UNCHANGED <<net_queue, net_finished>>
       ELSE /\ net_queue[s] # <<>>
            /\ LET message == decode(Head(net_queue[s]))
                   fi == Append(net_finished[s], message) IN
               /\ net_queue' = [net_queue EXCEPT ![s] = Tail(@)]
               /\ net_finished' = [net_finished EXCEPT ![s] = fi]
               /\ net_pc' = [net_pc EXCEPT ![s] =
                                IF deps_satisfied(fi, net_deps[s])
                                THEN "construct" ELSE "wait"]
    /\ UNCHANGED <<svcVars, sockVars, iterVars, net_deps, net_idx>>

\* _run_interface, _run_dashboard of s: the workload is constructed
net_construct(s) ==
    /\ net_pc[s] = "construct"
    /\ net_pc' = [net_pc EXCEPT ![s] = "send_ready"]
    /\ UNCHANGED <<svcVars, sockVars, iterVars, net_deps, net_queue,
                   net_finished, net_idx>>

\* _send_message(service_name) of s: one SocketClient.send that returns (it
\* retries until the peer's server accepts), or the end of the for loop, after
\* which the workload is started
net_send_ready(s) ==
    /\ net_pc[s] = "send_ready"
    /\ LET clients == socket_clients(s) IN
       IF net_idx[s] < Len(clients)
       THEN LET p == clients[net_idx[s] + 1] IN
            /\ server_started(net_pc[p])
            /\ net_queue' = [net_queue EXCEPT ![p] = Append(@, encode(s))]
            /\ net_idx' = [net_idx EXCEPT ![s] = @ + 1]
            /\ net_pc' = net_pc
       ELSE /\ net_pc' = [net_pc EXCEPT ![s] = "running"]
            /\ UNCHANGED <<net_queue, net_idx>>
    /\ UNCHANGED <<svcVars, sockVars, iterVars, net_deps, net_finished>>

\* the steps of the process of service s
NetStep(s) ==
    \/ net_start(s)
    \/ net_wait(s)
    \/ net_construct(s)
    \/ net_send_ready(s)

NetNext ==
    \/ \E s \in Range(ports) : net_start(s)
    \/ \E s \in Range(ports) : net_wait(s)
    \/ \E s \in Range(ports) : net_construct(s)
    \/ \E s \in Range(ports) : net_send_ready(s)

\* every service is a process of its own that the operating system keeps
\* scheduling
NetSpec ==
    /\ NetInit
    /\ [][NetNext]_vars
    /\ \A s \in Range(ports) : WF_vars(NetStep(s))

Next ==
    \/ \E m \in Tokens : recv(m)
    \/ server_run_end
    \/ wait_dependencies
    \/ run_interface_init
    \/ run_dashboard_init
    \/ unsupported_service_type
    \/ send_ready
    \/ thread_start
    \/ run_interface_watch
    \/ dashboard_call
    \/ dashboard_return
    \/ send_exit
    \/ exit
    \/ thread_iteration_start
    \/ thread_iteration_end
    \/ thread_iteration_raise
    \/ thread_run_end

Spec == Init /\ [][Next]_vars

\* the steps of the service's own threads: the barrier-owning main thread,
\* the SocketServer thread and the InterfaceThread; what is left of Next is
\* the peers' sending, the user's closing of the dashboard and an
\* iteration's raising
ServiceNext ==
    \/ server_run_end
    \/ wait_dependencies
    \/ run_interface_init
    \/ run_dashboard_init
    \/ unsupported_service_type
    \/ send_ready
    \/ thread_start
    \/ run_interface_watch
    \/ dashboard_call
    \/ send_exit
    \/ exit
    \/ thread_iteration_start
    \/ thread_iteration_end
    \/ thread_run_end

\* the service with its threads kept running by the scheduler
FairSpec == Spec /\ WF_vars(ServiceNext)

(* ======================= claims on the service ======================== *)
Peers == Range(ports) \ {service_name}

ReadySent(p) == Count(sent[p], encode(service_name))

ExitSent(p) == Count(sent[p], encode("exit"))

\* the configuration errors, stated on the configuration file alone
UnknownTask(c) ==
    \E i \in 1..Len(c.SUBPACKAGES) :
        c.SUBPACKAGES[i].TASK \notin {"measurement", "analysis"}

BadConfig(c) ==
    \/ c.METHOD \notin {"batch", "stream", "simulate_stream"}
    \/ c.SERVICE_TYPE = "Interface" /\ UnknownTask(c)

ConfigErrors == {"Unsupported DATA_PROCESSING_METHOD", "Unsupported tasks exist"}

\* C1: _wait_dependencies returns exactly when the distinct payloads it has
\* taken from recv_queue cover DEPENDENCIES: it has left the barrier only with
\* the dependencies covered, each turn of its loop takes the oldest payload
\* and returns iff the payloads taken so far cover them (whatever their
\* order, duplicates and foreign payloads), and with no dependencies it
\* returns without taking a payload.
C1_BarrierReturnsWhenCovered ==
    /\ [](pc # "wait" => cfg.DEPENDENCIES \subseteq Range(finished_init))
    /\ [][pc = "wait" =>
            /\ (Len(recv_queue') < Len(recv_queue) \/ finished_init' # finished_init
                  => /\ recv_queue # <<>>
                     /\ recv_queue' = Tail(recv_queue)
                     /\ finished_init' =
                            Append(finished_init, decode(Head(recv_queue)))
                     /\ (pc' # "wait") <=>
                            (cfg.DEPENDENCIES \subseteq Range(finished_init')))
            /\ (pc' # "wait" =>
                     /\ pc' = "launch"
                     /\ cfg.DEPENDENCIES \subseteq Range(finished_init')
                     /\ (cfg.DEPENDENCIES # {} => finished_init' # finished_init))
            /\ (cfg.DEPENDENCIES = {} =>
                     /\ finished_init' = <<>>
                     /\ Len(recv_queue') >= Len(recv_queue))
         ]_vars

\* C1 witness: both dependencies arrived in the order c, b with a third
\* payload in between or a duplicate, and the barrier has returned
C1_Witness ==
    /\ pc = "launch"
    /\ cfg.DEPENDENCIES = {"b", "c"}
    /\ Len(finished_init) = 3
    /\ finished_init[1] = "c"
    /\ finished_init[3] = "b"

\* C3: in the watch of _run_interface the main thread takes one payload per
\* turn; an exit sets the loop's stop_event and ends the watch, any other
\* payload changes nothing but the queue; the watch ends and stop_event
\* changes in no other way.
C3_WatchStopsOnFirstExit ==
    [][pc = "watch" =>
         /\ Len(recv_queue') >= Len(recv_queue) - 1
         /\ (Len(recv_queue') < Len(recv_queue) =>
               /\ recv_queue' = Tail(recv_queue)
               /\ IF decode(Head(recv_queue)) = "exit"
                  THEN stop_event' /\ pc' = "exit"
                  ELSE /\ pc' = "watch"
                       /\ UNCHANGED <<sockVars, iterVars, netVars, stop_event, thread, n_iter, sent,
                                      server_stop>>)
         /\ (pc' # "watch" \/ stop_event' # stop_event =>
               /\ recv_queue # <<>>
               /\ decode(Head(recv_queue)) = "exit"
               /\ recv_queue' = Tail(recv_queue))
      ]_vars

\* C3 witness: three payloads were taken in the watch, the last an exit
C3_Witness ==
    /\ cfg.DEPENDENCIES = {}
    /\ pc = "exit"
    /\ stop_event
    /\ n_recv = 3
    /\ recv_queue = <<>>
    /\ thread = "iter"

\* C4: ready(service_name) goes to no port name more than once and never to
\* the service itself; it is sent only past the barrier and after the
\* workload object is constructed; when the workload runs (the loop thread
\* is started, the Dashboard is called) every peer has been sent it once.
C4_ReadyOnceToEveryPeer ==
    /\ sent[service_name] = <<>>
    /\ \A p \in Range(ports) : ReadySent(p) <= 1
    /\ (\E p \in Range(ports) : sent[p] # <<>>) =>
          /\ workload.state # "none"
          /\ pc \notin {"wait", "launch", "raised"}
    /\ (thread # "none" \/ n_iter > 0
          \/ workload.state \in {"running", "finished", "exited"}) =>
          \A p \in Peers : ReadySent(p) = 1 /\ Head(sent[p]) = encode(service_name)

\* C4 witness: the first iteration runs and both peers hold one ready
C4_Witness ==
    /\ thread = "iter"
    /\ n_iter = 1
    /\ \A p \in Peers : sent[p] = <<encode(service_name)>>

\* C5 as stated: the receive loop of an Interface service is asked to stop
\* only when the loop thread has terminated
C5_StopsReceiveAfterJoin ==
    (cfg.SERVICE_TYPE = "Interface" /\ server_stop) => thread = "dead"

\* C5 amended: the receive loop of an Interface service is asked to stop only
\* after the loop's stop_event is set on a started loop thread; nothing waits
\* for that thread, which after the stop signal starts no further iteration
\* and ends its iteration in flight on its own.
C5_StopsReceiveAfterStopSignal ==
    /\ []((cfg.SERVICE_TYPE = "Interface" /\ server_stop) =>
             stop_event /\ thread \in {"idle", "iter", "dead", "raised"})
    /\ [][stop_event =>
             /\ n_iter' = n_iter
             /\ (thread = "iter" => thread' \in {"iter", "idle", "raised"})
             /\ (thread = "idle" => thread' \in {"idle", "dead"})]_vars

\* C5 witness: the receive loop was asked to stop during an iteration
C5_Witness ==
    /\ cfg.SERVICE_TYPE = "Interface"
    /\ server_stop
    /\ thread = "iter"

\* C6 as stated: a service that stops its receive loop has sent exit to every
\* peer
C6_ExitBroadcastByEveryService ==
    server_stop => \A p \in Peers : ExitSent(p) >= 1

\* C6 amended: a Dashboard service has sent exit once to every peer, after its
\* ready, when it stops its receive loop; an Interface service sends no exit.
C6_ExitBroadcastByDashboardOnly ==
    /\ (cfg.SERVICE_TYPE = "Dashboard" /\ server_stop) =>
          \A p \in Peers : sent[p] = <<encode(service_name), encode("exit")>>
    /\ cfg.SERVICE_TYPE = "Interface" => \A p \in Range(ports) : ExitSent(p) = 0
    /\ sent[service_name] = <<>>

\* C6 witness: a Dashboard service has asked its receive loop to stop
C6_Witness ==
    /\ cfg.SERVICE_TYPE = "Dashboard"
    /\ server_stop
    /\ pc = "done"

\* C7 as stated: a configuration error is raised before the service has
\* waited for a dependency
C7_ConfigErrorBeforeBarrier ==
    error \in ConfigErrors => finished_init = <<>>

\* C7 amended: a configuration with an unsupported mode or an unknown task
\* category never gets past the construction of the workload: no ready is
\* sent, no loop thread started, no iteration run; the error is raised by the
\* constructor, which runs once the barrier has been passed.
C7_ConfigErrorAtConstruction ==
    /\ BadConfig(cfg) =>
          /\ pc \in {"wait", "launch", "raised"}
          /\ n_iter = 0 /\ thread = "none"
          /\ workload.kind = "none"
          /\ \A p \in Range(ports) : sent[p] = <<>>
          /\ (pc = "raised" => error \in ConfigErrors)
    /\ (pc = "raised" /\ cfg.SERVICE_TYPE \in {"Interface", "Dashboard"}) =>
          /\ BadConfig(cfg)
          /\ cfg.DEPENDENCIES \subseteq Range(finished_init)
    /\ (pc = "raised") <=> (error # "none")

\* C7 witness: the error is raised after the barrier has taken payloads
C7_Witness ==
    /\ pc = "raised"
    /\ error = "Unsupported DATA_PROCESSING_METHOD"
    /\ finished_init # <<>>

\* C9: with a model of an unknown task category in the configuration, an
\* Interface is never constructed: no iteration runs, no set_model was called
\* and no export worker was started, also when the error has been raised.
C9_UnknownTaskFailsConstruction ==
    (cfg.SERVICE_TYPE = "Interface" /\ UnknownTask(cfg)) =>
        /\ workload.kind = "none"
        /\ workload.set_model_calls = <<>>
        /\ ~workload.exporter_started
        /\ n_iter = 0 /\ thread = "none"
        /\ pc \in {"wait", "launch", "raised"}
        /\ (pc = "raised" => error \in ConfigErrors)

\* C9 witness: the constructor has raised for the category, in a streaming
\* mode, after it instantiated the models
C9_Witness ==
    /\ pc = "raised"
    /\ error = "Unsupported tasks exist"
    /\ cfg.METHOD = "stream"
    /\ workload.instantiated # <<>>

(* ======================= claims on the transport ====================== *)
IsPrefix(a, b) == Len(a) <= Len(b) /\ a = SubSeq(b, 1, Len(a))

\* C2: the queue of the server holds, at any time, the payloads of the first
\* send calls, each once, byte for byte and in send order; and the payload of
\* every send call that has returned is eventually on the queue, as long as
\* the server is not asked to stop.
C2_EveryPayloadOnceInOrder ==
    /\ [](IsPrefix(queue, to_send))
    /\ \A i \in 1..MaxSends :
          [](c_idx >= i => <>(Len(queue) >= i \/ srv_stop_event))

\* C2 witness: two different payloads were sent and are on the queue, the
\* second one received in two packets
C2_Witness ==
    /\ Len(to_send) = 2
    /\ queue = to_send
    /\ to_send[1] # to_send[2]
    /\ Len(data) = 2
    /\ ~srv_stop_event

(* ======================= claims on the iteration ====================== *)
ExplicitDatetimeError == "ValueError: datetime must be None with simulate_stream."

\* C8: in simulate_stream mode a call with an explicit first or last datetime
\* raises the configuration error, has imported nothing and generated no
\* tag, and leaves the cursor of the streaming clock (and the export queue)
\* as they were.
C8_ExplicitDatetimeRejected ==
    [][(n_calls' = n_calls + 1 /\ icfg.METHOD = "simulate_stream"
          /\ (out'.first_datetime # None \/ out'.last_datetime # None)) =>
            /\ out'.status = ExplicitDatetimeError
            /\ out'.imports = <<>>
            /\ out'.tag = NoTag
            /\ out'.dynamic_data = EmptyData
            /\ out'.exported = <<>>
            /\ last_datetime' = last_datetime
            /\ export_queue' = export_queue
      ]_vars

\* C8 witness: a call was rejected after an earlier call had advanced the
\* cursor
C8_Witness ==
    /\ out.status = ExplicitDatetimeError
    /\ out.last_datetime # None
    /\ last_datetime = 1
    /\ n_calls = 2

\* C10 as stated: every row of every series a call has produced carries the
\* tag of the call
C10_EveryProducedRowTagged ==
    out.status = "ok" =>
        \A n \in out.produced :
            LET series == out.dynamic_data.time_series_data[n] IN
            \A i \in 1..Len(series.tags) : series.tags[i] = out.tag

\* C11 as stated: two successive calls of one Interface get different
\* batch_ids, whatever the clock readings of their generate_tag calls
C11_BatchIdsDiffer ==
    [][(n_calls' = n_calls + 1 /\ out.status = "ok" /\ out'.status = "ok") =>
          out'.tag.batch_id # out.tag.batch_id]_vars

\* the batch_id values in the tags of the rows of a DynamicData
RowBatchIds(d) ==
    UNION {{d.time_series_data[n].tags[i].batch_id :
                i \in 1..Len(d.time_series_data[n].tags)} :
             n \in DOMAIN d.time_series_data}

\* the dependencies in the metadata record of the last call
Dependencies ==
    out.dynamic_data.time_series_batch_metadata[out.tag.batch_id].dependencies

C13_StreamingCallQueuesOne ==
    [][(n_calls' = n_calls + 1 /\ out'.status = "ok" /\ streaming(icfg)) =>
          putting' = [data_name |-> export_data_names(icfg),
                      batch_id |-> out'.tag.batch_id]]_vars

\* C14 as stated: the export queue never holds more than its configured
\* capacity
C14_QueueWithinCapacity ==
    Len(export_queue) <= icfg.STREAM_EXPORT_QUEUE_MAXSIZE

\* C14 amended: with a positive configured capacity N the export queue never
\* holds more than N entries; while it holds N and a call waits in put, the
\* entry keeps waiting and no call starts until the worker has taken an
\* entry; the queue changes only by the waiting entry joining its end or by
\* the worker taking its oldest entry, and a waiting entry leaves put only
\* onto the queue. (A capacity of 0 makes the queue unbounded.)
C14_PositiveCapacityBlocksPut ==
    /\ [](icfg.STREAM_EXPORT_QUEUE_MAXSIZE > 0 =>
             Len(export_queue) <= icfg.STREAM_EXPORT_QUEUE_MAXSIZE)
    /\ [][(/\ icfg.STREAM_EXPORT_QUEUE_MAXSIZE > 0
           /\ Len(export_queue) = icfg.STREAM_EXPORT_QUEUE_MAXSIZE
           /\ putting # NoEntry) =>
              /\ putting' = putting
              /\ n_calls' = n_calls
              /\ export_queue' \in {export_queue, Tail(export_queue)}]_vars
    /\ [][export_queue' # export_queue =>
              \/ putting # NoEntry /\ export_queue' = Append(export_queue, putting)
              \/ export_queue # <<>> /\ export_queue' = Tail(export_queue)]_vars
    /\ [][(putting # NoEntry /\ putting' # putting) =>
              /\ putting' = NoEntry
              /\ export_queue' = Append(export_queue, putting)]_vars

\* C14 witness: the queue holds as many entries as its positive capacity and
\* the second call waits in put with the entry of its batch
C14_Witness ==
    /\ icfg.STREAM_EXPORT_QUEUE_MAXSIZE > 0
    /\ Len(export_queue) = icfg.STREAM_EXPORT_QUEUE_MAXSIZE
    /\ putting # NoEntry
    /\ putting.batch_id = out.tag.batch_id
    /\ n_calls = 2

\* a call of the last step that read the streaming clock
ClockCall ==
    /\ n_calls' = n_calls + 1
    /\ icfg.METHOD = "simulate_stream"
    /\ out'.status # ExplicitDatetimeError

\* C15: with LOOP false the first call of the streaming clock returns
\* (FIRST_DATETIME, FIRST_DATETIME + INTERVAL), every later call returns the
\* window that starts where the window before it ended, INTERVAL long, also
\* when the cursor has reached or passed LAST_DATETIME; so the n-th call
\* returns (FIRST + (n-1)*INTERVAL, FIRST + n*INTERVAL).
C15_ClockAdvancesWithoutReset ==
    /\ [][(ClockCall /\ ~icfg.LOOP) =>
             /\ out'.window[1] = (IF last_datetime = None THEN icfg.SIMULATE_STREAM_PARAMS.FIRST_DATETIME
                                  ELSE last_datetime)
             /\ out'.window[2] = out'.window[1] + icfg.SIMULATE_STREAM_PARAMS.INTERVAL
             /\ last_datetime' = out'.window[2]]_vars
    /\ []((icfg.METHOD = "simulate_stream" /\ ~icfg.LOOP
             /\ out.status \notin {"none", ExplicitDatetimeError}) =>
             \E n \in 1..n_calls :
                 out.window = <<icfg.SIMULATE_STREAM_PARAMS.FIRST_DATETIME + (n - 1) * icfg.SIMULATE_STREAM_PARAMS.INTERVAL,
                                icfg.SIMULATE_STREAM_PARAMS.FIRST_DATETIME + n * icfg.SIMULATE_STREAM_PARAMS.INTERVAL>>)
    /\ [][(icfg.METHOD = "simulate_stream" /\ ~icfg.LOOP) =>
             (last_datetime' = last_datetime
                \/ last_datetime' = (IF last_datetime = None
                                     THEN icfg.SIMULATE_STREAM_PARAMS.FIRST_DATETIME
                                     ELSE last_datetime) + icfg.SIMULATE_STREAM_PARAMS.INTERVAL)]_vars

\* C15 witness: with LOOP false the second call started at LAST_DATETIME and
\* went past it
C15_Witness ==
    /\ icfg.METHOD = "simulate_stream" /\ ~icfg.LOOP
    /\ n_calls = 2
    /\ out.status = "ok"
    /\ out.window = <<icfg.SIMULATE_STREAM_PARAMS.LAST_DATETIME,
                      icfg.SIMULATE_STREAM_PARAMS.LAST_DATETIME
                          + icfg.SIMULATE_STREAM_PARAMS.INTERVAL>>
    /\ last_datetime > icfg.SIMULATE_STREAM_PARAMS.LAST_DATETIME

\* the names of the frames a model returns
OutputsOf(model) ==
    {model.res[k].name : k \in {k \in 1..Len(model.res) : ~model.res[k].df.isnone}}

\* C16: among the models a call has applied, no analysis model comes before
\* a measurement model, the models of one category come in configuration
\* order, each model was given working data that held the frames returned by
\* every model applied before it, and a call without an error has applied
\* every configured model once.
C16_TasksAndModelsInOrder ==
    LET a == out.applied IN
    /\ \A i, j \in 1..Len(a) :
           i < j =>
             /\ ~(a[i].task = "analysis" /\ a[j].task = "measurement")
             /\ (a[i].task = a[j].task => a[i].model < a[j].model)
             /\ OutputsOf(icfg.SUBPACKAGES[a[i].model]) \subseteq a[j].seen
    /\ out.status = "ok" =>
           /\ Len(a) = Len(icfg.SUBPACKAGES)
           /\ {a[i].model : i \in 1..Len(a)} = 1..Len(icfg.SUBPACKAGES)

\* C16 witness: of the models configured as analysis, measurement, analysis
\* the measurement model was applied first, then the two analysis models in
\* their order, the last one over the frames of both
C16_Witness ==
    /\ out.status = "ok"
    /\ Len(icfg.SUBPACKAGES) = 3
    /\ [i \in 1..3 |-> out.applied[i].model] = <<2, 1, 3>>
    /\ {"raw", "est", "aux"} \subseteq out.applied[3].seen

\* C17: each import of a call asks the store for the import_data_names of
\* its task other than the names the working data holds at that point, and
\* leaves every series the working data held (pre-seeded or produced by the
\* task before) as it was, adding only series it asked for.
C17_ImportKeepsPresentSeries ==
    \A k \in 1..Len(out.imports) :
        LET e == out.imports[k] IN
        /\ e.task = tasks[k]
        /\ e.data_name = import_data_names(icfg, e.task) \ DOMAIN e.before
        /\ \A n \in DOMAIN e.before :
               n \in DOMAIN e.after /\ e.after[n] = e.before[n]
        /\ DOMAIN e.after \ DOMAIN e.before \subseteq e.data_name

\* C17 witness: the analysis import of a call over pre-seeded 'raw' asked
\* for 'ref' alone and brought it in beside the pre-seeded series
C17_Witness ==
    /\ Len(out.imports) = 2
    /\ "raw" \in out.seeded
    /\ out.imports[2].data_name = {"ref"}
    /\ "raw" \in DOMAIN out.imports[2].before
    /\ out.imports[2].before["raw"].tags[1].batch_id = "seed_0"
    /\ "ref" \in DOMAIN out.imports[2].after

\* C18 as stated: once an iteration has raised and ended the loop thread, the
\* service stops: the main thread gets to the end of __call__, where the
\* receive loop is stopped
C18_RaiseStopsService ==
    (thread = "raised") ~> (pc = "done" /\ server_stop)

\* C19: the batch metadata a call returns are the records passed in and one
\* record more, keyed by the batch_id of the call and holding the
\* service_name and batch_datetime of its tag and the batch_ids of the other
\* batches found in the rows of the returned data; a call given no data
\* returns that one record alone.
C19_OneMetadataRecordPerCall ==
    out.status = "ok" =>
        LET md == out.dynamic_data.time_series_batch_metadata
            b == out.tag.batch_id IN
        /\ DOMAIN md = DOMAIN out.seed_batches \cup {b}
        /\ b \notin DOMAIN out.seed_batches
        /\ \A k \in DOMAIN out.seed_batches : md[k] = out.seed_batches[k]
        /\ md[b].service_name = service_name
        /\ md[b].service_name = out.tag.service_name
        /\ md[b].batch_datetime = out.tag.batch_datetime
        /\ md[b].dependencies = RowBatchIds(out.dynamic_data) \ {b}
        /\ (out.seeded = {} /\ DOMAIN out.seed_batches = {}
               => Cardinality(DOMAIN md) = 1)

\* C19 witness: a call given data of one batch returned that batch's record
\* and its own, which names the batch as a dependency
C19_Witness ==
    /\ out.status = "ok"
    /\ DOMAIN out.seed_batches = {"seed_0"}
    /\ Cardinality(DOMAIN out.dynamic_data.time_series_batch_metadata) = 2
    /\ "seed_0" \in Dependencies
    /\ out.tag.batch_datetime = 1

\* C20: a connect of send that fails raises nothing out of send: the call
\* sleeps and connects again, for the same payload and with nothing written;
\* every send call that has returned has made one connection and written
\* its whole payload on it, once; and unless the server is asked to stop, a
\* send call that was entered returns, also when it was entered before the
\* server listened.
C20_SendRetriesUntilWritten ==
    /\ [][(c_pc = "connect" /\ ~listening) =>
             /\ c_pc' \in {"connect", "sleep"}
             /\ c_idx' = c_idx /\ conns' = conns /\ c_off' = c_off]_vars
    /\ [][c_pc = "sleep" => c_pc' \in {"sleep", "connect"}]_vars
    /\ [](Len(conns) = c_idx + (IF c_pc \in {"sendall", "close"} THEN 1 ELSE 0))
    /\ [][c_idx' # c_idx =>
             /\ c_idx' = c_idx + 1
             /\ c_off = Len(to_send[c_idx + 1])
             /\ Len(conns') = Len(conns)]_vars
    /\ [](c_pc # "idle" => <>(c_pc = "idle" \/ srv_stop_event))

\* C20 witness: a send call whose first connects failed has returned, and
\* its payload is the one entry of the server's queue
C20_Witness ==
    /\ c_fails = MaxFails
    /\ c_pc = "idle"
    /\ c_idx = 1
    /\ to_send[1] # <<>>
    /\ queue = <<to_send[1]>>
    /\ ~srv_stop_event

\* C21: the exit flag of the export worker is set only by the loop thread
\* after its last iteration: when it is set the stop signal was given, no
\* iteration is in flight and none starts any more (so nothing is put on
\* the export queue); and after the stop signal the iteration in flight
\* runs to its end and no further iteration starts.
C21_ExporterStoppedAfterLastIteration ==
    /\ [](workload.exporter_exit =>
             stop_event /\ thread = "dead" /\ workload.state = "exited")
    /\ [][workload.exporter_exit =>
             (n_iter' = n_iter /\ thread' = thread
                /\ workload'.exporter_exit)]_vars
    /\ [][~workload.exporter_exit /\ workload'.exporter_exit =>
             thread = "idle" /\ stop_event /\ n_iter' = n_iter]_vars
    /\ [][stop_event =>
             /\ n_iter' = n_iter
             /\ thread' # "iter" \/ thread = "iter"]_vars

\* C21 witness: a streaming Interface service that has run iterations has
\* ended, and its loop thread has set the worker's exit flag
C21_Witness ==
    /\ workload.exporter_exit
    /\ n_iter = MaxIter
    /\ pc = "done"

\* C22: with LOOP true a call of the streaming clock starts its window at
\* FIRST_DATETIME exactly when the cursor is unset or has reached or passed
\* LAST_DATETIME when the call starts, and at the cursor otherwise; the
\* window is INTERVAL long and the cursor moves to its end; so every window
\* starts at FIRST_DATETIME or before LAST_DATETIME.
C22_LoopResetsAtLastDatetime ==
    /\ [][(ClockCall /\ icfg.LOOP) =>
             /\ out'.window[1] =
                   (IF last_datetime = None
                       \/ last_datetime >= icfg.SIMULATE_STREAM_PARAMS.LAST_DATETIME
                    THEN icfg.SIMULATE_STREAM_PARAMS.FIRST_DATETIME
                    ELSE last_datetime)
             /\ out'.window[2] =
                   out'.window[1] + icfg.SIMULATE_STREAM_PARAMS.INTERVAL
             /\ last_datetime' = out'.window[2]]_vars
    /\ []((icfg.LOOP /\ out.status \notin {"none", ExplicitDatetimeError}) =>
             \/ out.window[1] = icfg.SIMULATE_STREAM_PARAMS.FIRST_DATETIME
             \/ out.window[1] < icfg.SIMULATE_STREAM_PARAMS.LAST_DATETIME)

\* C22 witness: with LOOP true the second call found the cursor at
\* LAST_DATETIME and started over at FIRST_DATETIME
C22_Witness ==
    /\ icfg.LOOP
    /\ n_calls = 2
    /\ out.status = "ok"
    /\ out.window[1] = icfg.SIMULATE_STREAM_PARAMS.FIRST_DATETIME
    /\ last_datetime = icfg.SIMULATE_STREAM_PARAMS.LAST_DATETIME
    /\ out.tag.batch_datetime = 1

\* the output names of all configured models
ModelOutputs(c) ==
    UNION {Range(c.SUBPACKAGES[i].output_data_names) : i \in 1..Len(c.SUBPACKAGES)}

\* C23 as stated: with the influx store configured, a call in any mode makes
\* one direct export, to the configured store, of names that are among both
\* EXPORT_DATA_NAMES and the models' output names
C23_DirectExportToConfiguredStore ==
    (out.status = "ok" /\ icfg.TIME_SERIES_DATA_SYSTEM = "influx") =>
        /\ Len(out.exported) = 1
        /\ out.exported[1].system = icfg.TIME_SERIES_DATA_SYSTEM
        /\ out.exported[1].data_name \subseteq
               icfg.EXPORT_DATA_NAMES \cap ModelOutputs(icfg)

\* C24: the server reads one connection at a time: every connection it has
\* accepted but the one it is reading is closed, and it closes a connection
\* only at the end of its stream, before it accepts again; once stop() is
\* requested, the test of the run loop ends the loop, so the server ends
\* after the accept in progress has timed out or the connection in progress
\* was read to its end.
C24_OneConnectionAtATimeUntilStopped ==
    /\ [](\A i \in 1..Len(conns) :
             /\ (conns[i].closed => i <= n_accepted)
             /\ (i <= n_accepted /\ ~conns[i].closed) =>
                    (i = n_accepted /\ srv_pc = "recv"))
    /\ [][\A i \in 1..Len(conns) :
             (~conns[i].closed /\ conns'[i].closed) =>
                 /\ conns[i].eof /\ conns[i].data = <<>>
                 /\ n_accepted' = n_accepted
                 /\ srv_pc' = "loop"]_vars
    /\ [][n_accepted' # n_accepted =>
             /\ n_accepted' = n_accepted + 1
             /\ srv_pc = "accept"
             /\ \A i \in 1..n_accepted : conns[i].closed]_vars
    /\ [][(srv_stop_event /\ srv_pc = "loop") =>
             srv_pc' \in {"loop", "stopped"}]_vars
    /\ (srv_stop_event ~> srv_pc = "stopped")

\* C24 witness: the server has read one connection to its end in two
\* packets, closed it, and ended on the stop() request
C24_Witness ==
    /\ srv_stop_event
    /\ srv_pc = "stopped"
    /\ n_accepted = 1
    /\ conns[1].closed
    /\ Len(data) = 2
    /\ queue = <<to_send[1]>>

\* C25: Interface.exit can be called as soon as the last call has returned,
\* whatever the export queue holds, and it sets the worker's stop flag (in a
\* streaming mode) without taking anything off the queue; the witness shows
\* the reachable state with the flag set and an entry still queued.
C25_ExitDoesNotWaitForDrain ==
    /\ []((~exited /\ putting = NoEntry) => ENABLED Interface_exit_call)
    /\ [][(~exited /\ exited') =>
             /\ export_queue' = export_queue
             /\ parallel_exporter_exit' = streaming(icfg)]_vars

\* C25 witness: the worker's stop flag is set and the queue holds the entry
\* of the last batch
C25_Witness ==
    /\ parallel_exporter_exit
    /\ export_queue # <<>>
    /\ export_queue[Len(export_queue)].batch_id = out.tag.batch_id

\* C26 as stated: whenever an Interface service takes an `exit` message off
\* its recv_queue, at any point of its life, the stop signal of its
\* execution loop is given
C26_ExitNeverConsumedWithoutEffect ==
    [][(/\ cfg.SERVICE_TYPE = "Interface"
        /\ recv_queue # <<>>
        /\ recv_queue' = Tail(recv_queue)
        /\ decode(Head(recv_queue)) = "exit") => stop_event']_vars

\* service d has constructed its workload and its ready message has been
\* delivered to service s
ReadyDelivered(d, s) ==
    \/ net_pc[d] = "running"
    \/ /\ net_pc[d] = "send_ready"
       /\ \E i \in 1..net_idx[d] : socket_clients(d)[i] = s

PassedBarrier(s) == net_pc[s] \in {"construct", "send_ready", "running"}

Acyclic(deps) ==
    LET step(S) == S \cup UNION {deps[x] : x \in S}
        reach(s) == step(step(step(deps[s]))) IN
    \A s \in Range(ports) : s \notin reach(s)

AllPeers(deps) ==
    \A s \in Range(ports) : deps[s] \subseteq Range(ports) \ {s}

\* C28: in a deployment whose dependency relation is acyclic and names only
\* configured peers, with every service started and none exiting, every
\* service eventually is past its barrier, has sent its ready message to
\* every peer and has started its workload
C28_EveryServiceEventuallyRuns ==
    (Acyclic(net_deps) /\ AllPeers(net_deps)) =>
        <>(\A s \in Range(ports) : net_pc[s] = "running")

C28_Witness ==
    /\ Acyclic(net_deps)
    /\ \E s \in Range(ports) : Cardinality(net_deps[s]) = 2
    /\ \A s \in Range(ports) : net_pc[s] = "running"

\* C29 as stated: whenever Service.__call__ has ended, by returning or by
\* raising an error, the SocketServer started in __init__ has been asked to
\* stop
C29_ServerStoppedWhenCallEnds ==
    pc \in {"done", "raised"} => server_stop

\* the names the models applied before the k-th one declare as outputs
DeclaredBefore(c, a, k) ==
    UNION {Range(c.SUBPACKAGES[a[j].model].output_data_names) : j \in 1..(k - 1)}

\* C30 as stated: every input name a model declares that no model applied
\* before it declares as an output was, before the model is applied, asked of
\* the store by the import of the model's category or present in the data the
\* call was given
C30_InputsRequestedBeforeApplied ==
    \A k \in 1..Len(out.applied) :
        LET a == out.applied[k]
            e == out.imports[CHOOSE i \in 1..Len(out.imports) :
                                 out.imports[i].task = a.task] IN
        \A n \in Range(icfg.SUBPACKAGES[a.model].input_data_names)
                 \ DeclaredBefore(icfg, out.applied, k) :
            n \in e.data_name \cup DOMAIN e.before

====
